---- MODULE Spec2Model ----
(***************************************************************************)
(* A model of the singularity connection plugin (src/singularity.py).      *)
(*                                                                         *)
(* Text is modelled as a sequence of one-character strings, so that        *)
(* splitting, joining, normalising and quoting are computed character by   *)
(* character, the way the Python code and its library calls compute them.  *)
(***************************************************************************)
EXTENDS Integers, Sequences, FiniteSets, TLC

(***************************************************************************)
(* Bounds of the model.                                                    *)
(***************************************************************************)
\* longest path handed to _prefix_login_path on its own
MaxPathLen == 4
\* longest singularity_extra_args string
MaxExtraLen == 3
\* largest exit status a child process returns
MaxRc == 2

(***************************************************************************)
(* Characters and strings.                                                 *)
(***************************************************************************)
\* os.path.sep on the POSIX controller
SEP == "/"
SQ == "'"
DQ == "\""

\* the characters remote paths are built from: a separator, a dot, a plain
\* letter, and three characters the shell treats specially
PathChars == {SEP, ".", "a", " ", ";", SQ}

\* the characters singularity_extra_args is built from
ExtraChars == {"-", "q", " "}

\* all strings over chars of length at most n
Strings(chars, n) == UNION {[1..k -> chars] : k \in 0..n}

startswith(s, c) == Len(s) >= 1 /\ s[1] = c

RECURSIVE split(_, _)
\* str.split(sep) with a one-character separator: cuts at every occurrence,
\* keeping the empty pieces; the empty string gives one empty piece
split(s, sep) ==
    IF \A i \in 1..Len(s) : s[i] # sep
    THEN <<s>>
    ELSE LET k == CHOOSE i \in 1..Len(s) :
                      s[i] = sep /\ \A j \in 1..(i-1) : s[j] # sep
         IN  <<SubSeq(s, 1, k-1)>> \o split(SubSeq(s, k+1, Len(s)), sep)

RECURSIVE join(_, _)
\* sep.join(parts)
join(parts, sep) ==
    IF parts = <<>> THEN <<>>
    ELSE IF Len(parts) = 1 THEN parts[1]
    ELSE parts[1] \o <<sep>> \o join(Tail(parts), sep)

(***************************************************************************)
(* Path normalisation.                                                     *)
(***************************************************************************)
\* os.path.join(os.path.sep, b) of posixpath: an absolute b replaces the
\* base, otherwise b is appended to the base, which already ends in SEP
path_join_root(b) == IF startswith(b, SEP) THEN b ELSE <<SEP>> \o b

DOT == <<".">>
DOTDOT == <<".", ".">>

\* posixpath.normpath: the number of leading slashes kept (0, 1 or 2)
initial_slashes(path) ==
    IF ~startswith(path, SEP) THEN 0
    ELSE IF Len(path) >= 2 /\ path[2] = SEP /\ ~(Len(path) >= 3 /\ path[3] = SEP)
         THEN 2
         ELSE 1

RECURSIVE norm_comps(_, _, _)
\* posixpath.normpath: the loop over the components
norm_comps(comps, new_comps, slashes) ==
    IF comps = <<>> THEN new_comps
    ELSE LET comp == Head(comps)
             rest == Tail(comps)
         IN  IF comp = <<>> \/ comp = DOT
             THEN norm_comps(rest, new_comps, slashes)
             ELSE IF \/ comp # DOTDOT
                     \/ (slashes = 0 /\ new_comps = <<>>)
                     \/ (new_comps # <<>> /\ new_comps[Len(new_comps)] = DOTDOT)
                  THEN norm_comps(rest, Append(new_comps, comp), slashes)
                  ELSE IF new_comps # <<>>
                       THEN norm_comps(rest, SubSeq(new_comps, 1, Len(new_comps) - 1), slashes)
                       ELSE norm_comps(rest, new_comps, slashes)

\* a normpath that keeps '..' components instead of resolving them
normpath_keep_dotdot(path) ==
    IF path = <<>> THEN DOT
    ELSE LET n == initial_slashes(path)
             kept == SelectSeq(split(path, SEP), LAMBDA c : c # <<>> /\ c # DOT)
             body == [i \in 1..n |-> SEP] \o join(kept, SEP)
         IN  IF body = <<>> THEN DOT ELSE body

\* posixpath.normpath
normpath(path) ==
    IF path = <<>> THEN DOT
    ELSE LET n == initial_slashes(path)
             comps == norm_comps(split(path, SEP), <<>>, n)
             body == [i \in 1..n |-> SEP] \o join(comps, SEP)
         IN  IF body = <<>> THEN DOT ELSE body

\* a _prefix_login_path that forgets to anchor a relative path
_prefix_login_path_unanchored(remote_path) == normpath(remote_path)

\* Connection._prefix_login_path
_prefix_login_path(remote_path) ==
    IF ~startswith(remote_path, SEP)
    THEN normpath(path_join_root(remote_path))
    ELSE normpath(remote_path)

(***************************************************************************)
(* Command construction.                                                   *)
(***************************************************************************)
EXEC == <<"e", "x", "e", "c">>

\* a _build_exec_cmd that puts the extra arguments after the target
_build_exec_cmd_extras_last(singularity_cmd, extras, remote_addr, cmd) ==
    <<singularity_cmd>> \o <<EXEC, remote_addr>>
        \o (IF extras # <<>> THEN split(extras, " ") ELSE <<>>) \o cmd

\* Connection._build_exec_cmd, with the three things it reads from self
_build_exec_cmd(singularity_cmd, extras, remote_addr, cmd) ==
    LET local_cmd == <<singularity_cmd>>
        with_extras == IF extras # <<>>
                       THEN local_cmd \o split(extras, " ")
                       ELSE local_cmd
    IN  with_extras \o <<EXEC, remote_addr>> \o cmd

(***************************************************************************)
(* Quoting, and the shell that reads the quoted text.                      *)
(***************************************************************************)
\* the characters shlex.quote leaves alone: [\w@%+=:,./-]
SafeChars ==
    {"a", "b", "c", "d", "e", "f", "g", "h", "i", "j", "k", "l", "m", "n",
     "o", "p", "q", "r", "s", "t", "u", "v", "w", "x", "y", "z",
     "0", "1", "2", "3", "4", "5", "6", "7", "8", "9", "_",
     "@", "%", "+", "=", ":", ",", ".", "/", "-"}

RECURSIVE replace_sq(_)
\* s.replace("'", "'\"'\"'")
replace_sq(s) ==
    IF s = <<>> THEN <<>>
    ELSE (IF Head(s) = SQ THEN <<SQ, DQ, SQ, DQ, SQ>> ELSE <<Head(s)>>)
             \o replace_sq(Tail(s))

\* shlex_quote (shlex.quote)
shlex_quote(s) ==
    IF s = <<>> THEN <<SQ, SQ>>
    ELSE IF \A i \in 1..Len(s) : s[i] \in SafeChars THEN s
    ELSE <<SQ>> \o replace_sq(s) \o <<SQ>>

RECURSIVE sh_scan(_, _, _, _, _, _, _)
\* the in-instance shell reading the text given to -c: blanks end a word,
\* ';' ends a command, '...' and "..." are taken literally; an open quote at
\* the end and a ';' with no command before it are syntax errors (ok is
\* FALSE); mode is "u" (unquoted), "s" (inside '...') or "d" (inside "...")
sh_scan(s, i, mode, cur, inWord, words, cmds) ==
    LET flushed == IF inWord THEN Append(words, cur) ELSE words
    IN  IF i > Len(s)
        THEN IF mode # "u"
             THEN [ok |-> FALSE, cmds |-> <<>>]
             ELSE [ok |-> TRUE,
                   cmds |-> IF flushed # <<>> THEN Append(cmds, flushed) ELSE cmds]
        ELSE LET c == s[i]
             IN  IF mode = "s"
                 THEN IF c = SQ
                      THEN sh_scan(s, i + 1, "u", cur, TRUE, words, cmds)
                      ELSE sh_scan(s, i + 1, "s", Append(cur, c), TRUE, words, cmds)
                 ELSE IF mode = "d"
                 THEN IF c = DQ
                      THEN sh_scan(s, i + 1, "u", cur, TRUE, words, cmds)
                      ELSE sh_scan(s, i + 1, "d", Append(cur, c), TRUE, words, cmds)
                 ELSE IF c = " "
                 THEN sh_scan(s, i + 1, "u", <<>>, FALSE, flushed, cmds)
                 ELSE IF c = ";"
                 THEN IF flushed = <<>>
                      THEN [ok |-> FALSE, cmds |-> <<>>]
                      ELSE sh_scan(s, i + 1, "u", <<>>, FALSE, <<>>, Append(cmds, flushed))
                 ELSE IF c = SQ
                 THEN sh_scan(s, i + 1, "s", cur, TRUE, words, cmds)
                 ELSE IF c = DQ
                 THEN sh_scan(s, i + 1, "d", cur, TRUE, words, cmds)
                 ELSE sh_scan(s, i + 1, "u", Append(cur, c), TRUE, words, cmds)

\* the commands, each a sequence of words, the shell runs for the text s
sh_parse(s) == sh_scan(s, 1, "u", <<>>, FALSE, <<>>, <<>>)

\* ansible.plugins.connection.BUFSIZE
BUFSIZE == 65536

DigitChar == <<"0", "1", "2", "3", "4", "5", "6", "7", "8", "9">>

RECURSIVE str_int(_)
\* "%s" % n for a natural number n
str_int(n) ==
    IF n < 10 THEN <<DigitChar[n + 1]>>
    ELSE str_int(n \div 10) \o <<DigitChar[(n % 10) + 1]>>

\* "dd of=%s bs=%s" % (out_path, BUFSIZE)
dd_of(out_path) ==
    <<"d", "d", " ", "o", "f", "=">> \o out_path \o <<" ", "b", "s", "=">> \o str_int(BUFSIZE)

\* "dd if=%s bs=%s" % (in_path, BUFSIZE)
dd_if(in_path) ==
    <<"d", "d", " ", "i", "f", "=">> \o in_path \o <<" ", "b", "s", "=">> \o str_int(BUFSIZE)

(***************************************************************************)
(* The connection and the world around it.                                 *)
(***************************************************************************)
VARIABLES
    connected,    \* self._connected
    lastCall,     \* the most recent of _connect / close: "none" before both
    closedEver,   \* close has been called at least once
    localFile,    \* the local output file of fetch_file: "absent", "empty",
                  \* "partial" or "full"
    op,           \* the method called last
    inp,          \* what it was called with, and what the world did
    out           \* what it returned or raised, and what it did on the way

vars == <<connected, lastCall, closedEver, localFile, op, inp, out>>

\* the configuration of the connection in the facade specification
SINGULARITY == <<"s", "i", "n", "g", "u", "l", "a", "r", "i", "t", "y">>
REMOTE_ADDR == <<"i", "1">>
EXTRA_ARGS == <<"-", "q">>
\* self._play_context.executable
EXECUTABLE == <<"/", "b", "i", "n", "/", "s", "h">>
DASH_C == <<"-", "c">>

\* remote paths used in the facade specification: a relative path, an
\* absolute one, and paths with a blank, a ';' and a quote
RemotePaths ==
    { <<"e", "t", "c", "/", "m", "o", "t", "d">>,
      <<"/", "v", "a", "r", "/", "x">>,
      <<"/", "t", "m", "p", "/", "a", " ", "b">>,
      <<"x", ";", "y">>,
      <<"i", "t", "'", "s">> }

LocalPaths == {"local.dat"}

\* what a child writes to a pipe
Streams == {"", "no such file"}
DD_NOT_FOUND == "dd: not found"

\* what the world does to one child process: whether the control binary can
\* be started on the controller, whether dd exists in the instance, the exit
\* status and the two output streams. A shell that does not find dd exits non-zero and says so.
Envs ==
    { e \in [launch : BOOLEAN, dd : BOOLEAN, rc : 0..MaxRc,
             stdout : Streams, stderr : Streams \cup {DD_NOT_FOUND}] :
        /\ ~e.launch => (e.dd /\ e.rc = 0 /\ e.stdout = "" /\ e.stderr = "")
        /\ (e.launch /\ ~e.dd) => (e.rc # 0 /\ e.stdout = "" /\ e.stderr = DD_NOT_FOUND)
        /\ (e.launch /\ e.dd) => e.stderr # DD_NOT_FOUND }

\* how much of the remote file can have reached a local file bound to the
\* child's stdout when the child ends
Written(e) ==
    IF ~e.launch \/ ~e.dd THEN {"empty"}
    ELSE IF e.rc = 0 THEN {"full"}
    ELSE {"empty", "partial", "full"}

\* the parts of an error message
Remote(p) == [t |-> "remote", v |-> p]
Local(p) == [t |-> "local", v |-> p]
Bytes(b) == [t |-> "bytes", v |-> b]
None == [t |-> "none", v |-> "None"]

NoError == [exc |-> "none", text |-> "", args |-> <<>>]

\* AnsibleFileNotFound("file or module does not exist: %s" % in_path)
file_not_found(in_path) ==
    [exc |-> "AnsibleFileNotFound", text |-> "file or module does not exist",
     args |-> <<Local(in_path)>>]

\* AnsibleError("singularity connection requires dd command in the container to put files")
dd_required ==
    [exc |-> "AnsibleError",
     text |-> "singularity connection requires dd command in the container to put files",
     args |-> <<>>]

\* a put_file failure message without the child's stderr
put_failed_no_stderr(in_path, out_path, stdout, stderr) ==
    [exc |-> "AnsibleError", text |-> "failed to transfer file",
     args |-> <<Local(in_path), Remote(out_path), Bytes(stdout)>>]

\* AnsibleError("failed to transfer file %s to %s:\n%s\n%s" % (...))
put_failed(in_path, out_path, stdout, stderr) ==
    [exc |-> "AnsibleError", text |-> "failed to transfer file",
     args |-> <<Local(in_path), Remote(out_path), Bytes(stdout), Bytes(stderr)>>]

\* AnsibleError("failed to fetch file %s to %s:\n%s\n%s" % (...)); the stdout
\* communicate() returns is None, stdout being bound to the file
fetch_failed(in_path, out_path, stderr) ==
    [exc |-> "AnsibleError", text |-> "failed to fetch file",
     args |-> <<Remote(in_path), Local(out_path), None, Bytes(stderr)>>]

\* the OSError of a Popen that cannot start args[0], not caught by exec_command
os_error(args) == [exc |-> "OSError", text |-> "No such file or directory",
                   args |-> <<Remote(args[1])>>]

\* the IOError of an open() that fails, not caught by fetch_file
io_error(path) == [exc |-> "IOError", text |-> "cannot open", args |-> <<Local(path)>>]

NoInput == [k |-> "none"]
NoOutput == [err |-> NoError, argv |-> <<>>, events |-> <<>>, ret |-> <<>>]

\* Connection.exec_command: the tuple it returns or the error it lets through
exec_result(cmd, e) ==
    LET local_cmd == _build_exec_cmd(SINGULARITY, EXTRA_ARGS, REMOTE_ADDR,
                                     <<EXECUTABLE, DASH_C, cmd>>)
    IN  IF ~e.launch
        THEN [err |-> os_error(local_cmd), argv |-> local_cmd,
              events |-> <<"Popen">>, ret |-> <<>>]
        ELSE [err |-> NoError, argv |-> local_cmd,
              events |-> <<"Popen", "child", "communicate">>,
              ret |-> <<e.rc, e.stdout, e.stderr>>]

\* a put_file that opens the file and starts the child before it looks
\* whether the local file exists
put_result_spawn_first(in_path, out_path, exists, e) ==
    LET quoted == shlex_quote(_prefix_login_path(out_path))
        args == _build_exec_cmd(SINGULARITY, EXTRA_ARGS, REMOTE_ADDR,
                                <<EXECUTABLE, DASH_C, dd_of(quoted)>>)
    IN  IF ~e.launch
        THEN [err |-> dd_required, argv |-> args,
              events |-> <<"open_r", "Popen", "close">>, ret |-> <<>>]
        ELSE IF ~exists
        THEN [err |-> file_not_found(in_path), argv |-> args,
              events |-> <<"open_r", "Popen", "child", "exists", "close">>, ret |-> <<>>]
        ELSE IF e.rc # 0
        THEN [err |-> put_failed(in_path, quoted, e.stdout, e.stderr), argv |-> args,
              events |-> <<"open_r", "Popen", "child", "exists", "communicate", "close">>,
              ret |-> <<>>]
        ELSE [err |-> NoError, argv |-> args,
              events |-> <<"open_r", "Popen", "child", "exists", "communicate", "close">>,
              ret |-> <<>>]

\* Connection.put_file: what it raises, the argument vector it builds and
\* what it does on the way, in order: "exists" (os.path.exists), "open_r"
\* (the local file is opened), "Popen", "child" (a child process exists),
\* "communicate", "close" (the with block closes the file)
put_result(in_path, out_path, exists, e) ==
    LET norm == _prefix_login_path(out_path)
    IN  IF ~exists
        THEN [err |-> file_not_found(in_path), argv |-> <<>>,
              events |-> <<"exists">>, ret |-> <<>>]
        ELSE LET quoted == shlex_quote(norm)
                 args == _build_exec_cmd(SINGULARITY, EXTRA_ARGS, REMOTE_ADDR,
                                         <<EXECUTABLE, DASH_C, dd_of(quoted)>>)
             IN  IF ~e.launch
                 THEN [err |-> dd_required, argv |-> args,
                       events |-> <<"exists", "open_r", "Popen", "close">>, ret |-> <<>>]
                 ELSE IF e.rc # 0
                 THEN [err |-> put_failed(in_path, quoted, e.stdout, e.stderr),
                       argv |-> args,
                       events |-> <<"exists", "open_r", "Popen", "child",
                                    "communicate", "close">>,
                       ret |-> <<>>]
                 ELSE [err |-> NoError, argv |-> args,
                       events |-> <<"exists", "open_r", "Popen", "child",
                                    "communicate", "close">>,
                       ret |-> <<>>]

\* a fetch_file that removes the local file when the transfer fails
fetch_result_cleanup(in_path, out_path, file, writable, e, written) ==
    LET norm == _prefix_login_path(in_path)
        args == _build_exec_cmd(SINGULARITY, EXTRA_ARGS, REMOTE_ADDR,
                                <<EXECUTABLE, DASH_C, dd_if(norm)>>)
    IN  IF ~writable
        THEN [err |-> io_error(out_path), argv |-> args, events |-> <<"open_w">>,
              ret |-> <<>>, file |-> file]
        ELSE IF ~e.launch
        THEN [err |-> dd_required, argv |-> args,
              events |-> <<"open_w", "Popen", "close", "unlink">>,
              ret |-> <<>>, file |-> "absent"]
        ELSE IF e.rc # 0
        THEN [err |-> fetch_failed(norm, out_path, e.stderr), argv |-> args,
              events |-> <<"open_w", "Popen", "child", "communicate", "close", "unlink">>,
              ret |-> <<>>, file |-> "absent"]
        ELSE [err |-> NoError, argv |-> args,
              events |-> <<"open_w", "Popen", "child", "communicate", "close">>,
              ret |-> <<>>, file |-> written]

\* Connection.fetch_file: as put_result, with "open_w" (the local file is
\* created or truncated) and the state the local file is left in
fetch_result(in_path, out_path, file, writable, e, written) ==
    LET norm == _prefix_login_path(in_path)
        args == _build_exec_cmd(SINGULARITY, EXTRA_ARGS, REMOTE_ADDR,
                                <<EXECUTABLE, DASH_C, dd_if(norm)>>)
    IN  IF ~writable
        THEN [err |-> io_error(out_path), argv |-> args, events |-> <<"open_w">>,
              ret |-> <<>>, file |-> file]
        ELSE IF ~e.launch
        THEN [err |-> dd_required, argv |-> args,
              events |-> <<"open_w", "Popen", "close">>,
              ret |-> <<>>, file |-> "empty"]
        ELSE IF e.rc # 0
        THEN [err |-> fetch_failed(norm, out_path, e.stderr), argv |-> args,
              events |-> <<"open_w", "Popen", "child", "communicate", "close">>,
              ret |-> <<>>, file |-> written]
        ELSE [err |-> NoError, argv |-> args,
              events |-> <<"open_w", "Popen", "child", "communicate", "close">>,
              ret |-> <<>>, file |-> written]

(***************************************************************************)
(* The operations of the connection.                                       *)
(***************************************************************************)
Init ==
    /\ connected = FALSE
    /\ lastCall = "none"
    /\ closedEver = FALSE
    /\ localFile = "absent"
    /\ op = "init"
    /\ inp = NoInput
    /\ out = NoOutput

\* Connection._connect
_connect ==
    /\ connected' = (IF ~connected THEN TRUE ELSE connected)
    /\ lastCall' = "connect"
    /\ op' = "_connect"
    /\ inp' = NoInput
    /\ out' = NoOutput
    /\ UNCHANGED <<closedEver, localFile>>

\* a close that leaves the flag as it is
close_keeps_flag ==
    /\ lastCall' = "close"
    /\ closedEver' = TRUE
    /\ op' = "close"
    /\ inp' = NoInput
    /\ out' = NoOutput
    /\ UNCHANGED <<connected, localFile>>

\* Connection.close
close ==
    /\ connected' = FALSE
    /\ lastCall' = "close"
    /\ closedEver' = TRUE
    /\ op' = "close"
    /\ inp' = NoInput
    /\ out' = NoOutput
    /\ UNCHANGED localFile

Commands == { <<"t", "r", "u", "e">>, <<"l", "s", " ", "/">> }

\* an exec_command that brings the connection up before it runs the command
exec_command_ensure_connect ==
    \E cmd \in Commands, e \in Envs :
        /\ op' = "exec_command"
        /\ inp' = [cmd |-> cmd, env |-> e]
        /\ out' = exec_result(cmd, e)
        /\ connected' = TRUE
        /\ UNCHANGED <<lastCall, closedEver, localFile>>

\* Connection.exec_command
exec_command ==
    \E cmd \in Commands, e \in Envs :
        /\ op' = "exec_command"
        /\ inp' = [cmd |-> cmd, env |-> e]
        /\ out' = exec_result(cmd, e)
        /\ UNCHANGED <<connected, lastCall, closedEver, localFile>>

\* the world of a call that never starts a child
NoChild == [launch |-> FALSE, dd |-> TRUE, rc |-> 0, stdout |-> "", stderr |-> ""]

\* Connection.put_file
put_file ==
    \E in_path \in LocalPaths, out_path \in RemotePaths, exists \in BOOLEAN :
        \E e \in (IF exists THEN Envs ELSE {NoChild}) :
            /\ op' = "put_file"
            /\ inp' = [in_path |-> in_path, out_path |-> out_path, exists |-> exists,
                       env |-> e]
            /\ out' = put_result(in_path, out_path, exists, e)
            /\ UNCHANGED <<connected, lastCall, closedEver, localFile>>

\* the worlds of a fetch: nothing is written to the stdout pipe, stdout
\* being bound to the local file
FetchEnvs == {x \in Envs : x.stdout = ""}

\* Connection.fetch_file
fetch_file ==
    \E in_path \in RemotePaths, out_path \in LocalPaths, writable \in BOOLEAN :
        \E e \in (IF writable THEN FetchEnvs ELSE {NoChild}) :
            \E written \in Written(e) :
                /\ op' = "fetch_file"
                /\ inp' = [in_path |-> in_path, out_path |-> out_path,
                           writable |-> writable, env |-> e]
                /\ out' = fetch_result(in_path, out_path, localFile, writable, e, written)
                /\ localFile' = out'.file
                /\ UNCHANGED <<connected, lastCall, closedEver>>

Next == _connect \/ close \/ exec_command \/ put_file \/ fetch_file

Spec == Init /\ [][Next]_vars

(***************************************************************************)
(* _prefix_login_path on its own: every path up to MaxPathLen is           *)
(* normalised, and the result normalised once more.                        *)
(***************************************************************************)
InitPath ==
    /\ connected = FALSE
    /\ lastCall = "none"
    /\ closedEver = FALSE
    /\ localFile = "absent"
    /\ op = "path"
    /\ inp \in {[path |-> p] : p \in Strings(PathChars, MaxPathLen)}
    /\ out = NoOutput

normalize_call ==
    /\ op = "path"
    /\ op' = "_prefix_login_path"
    /\ out' = [path |-> _prefix_login_path(inp.path)]
    /\ UNCHANGED <<connected, lastCall, closedEver, localFile, inp>>

normalize_again ==
    /\ op = "_prefix_login_path"
    /\ op' = "again"
    /\ out' = [path |-> out.path, twice |-> _prefix_login_path(out.path)]
    /\ UNCHANGED <<connected, lastCall, closedEver, localFile, inp>>

NextPath == normalize_call \/ normalize_again

SpecPath == InitPath /\ [][NextPath]_vars

(***************************************************************************)
(* _build_exec_cmd on its own.                                             *)
(***************************************************************************)
Binaries == { SINGULARITY, <<"/", "o", "p", "t", "/", "s">> }
Targets == { REMOTE_ADDR, <<"w", "e", "b">> }
CommandLists == { <<>>, <<EXECUTABLE, DASH_C, <<"t", "r", "u", "e">>>>, <<<<"l", "s">>>> }

InitCmd ==
    /\ connected = FALSE
    /\ lastCall = "none"
    /\ closedEver = FALSE
    /\ localFile = "absent"
    /\ op = "cmd"
    /\ inp \in [bin : Binaries, extras : Strings(ExtraChars, MaxExtraLen),
                target : Targets, cmd : CommandLists]
    /\ out = NoOutput

build_call ==
    /\ op = "cmd"
    /\ op' = "_build_exec_cmd"
    /\ out' = [argv |-> _build_exec_cmd(inp.bin, inp.extras, inp.target, inp.cmd)]
    /\ UNCHANGED <<connected, lastCall, closedEver, localFile, inp>>

NextCmd == build_call

SpecCmd == InitCmd /\ [][NextCmd]_vars

(***************************************************************************)
(* Properties.                                                             *)
(***************************************************************************)
Transfers == {"put_file", "fetch_file"}

\* the call got as far as starting a child process
ReachedPopen ==
    \/ op = "put_file" /\ inp.exists
    \/ op = "fetch_file" /\ inp.writable

\* a child process of a put or a fetch ran and ended
ChildEnded == op \in Transfers /\ ReachedPopen /\ inp.env.launch

Has(events, ev) == \E i \in DOMAIN events : events[i] = ev

Index(events, ev) == CHOOSE i \in DOMAIN events : events[i] = ev

\* the number of blanks in a string
RECURSIVE Blanks(_)
Blanks(s) == IF s = <<>> THEN 0 ELSE (IF Head(s) = " " THEN 1 ELSE 0) + Blanks(Tail(s))

\* C1: the vector _build_exec_cmd returns is the binary, then the extra
\* arguments (the pieces of the extras string between its single blanks,
\* none for the empty string), then 'exec', the target and the command.
ExecCmdShape ==
    op = "_build_exec_cmd" =>
        LET argv == out.argv
            n == IF inp.extras = <<>> THEN 0 ELSE Blanks(inp.extras) + 1
        IN  /\ Len(argv) = 1 + n + 2 + Len(inp.cmd)
            /\ argv[1] = inp.bin
            /\ \A i \in 2..(n + 1) : \A k \in DOMAIN argv[i] : argv[i][k] # " "
            /\ n > 0 => join(SubSeq(argv, 2, n + 1), " ") = inp.extras
            /\ argv[n + 2] = EXEC
            /\ argv[n + 3] = inp.target
            /\ SubSeq(argv, n + 4, Len(argv)) = inp.cmd

ExecCmdShapeWitness ==
    /\ op = "_build_exec_cmd"
    /\ inp.extras = <<"-", " ", "q">>
    /\ inp.cmd # <<>>
    /\ out.argv[2] = <<"-">>
    /\ out.argv[3] = <<"q">>
    /\ out.argv[4] = EXEC

\* nothing in the world makes the last call fail
WorldIsKind ==
    \/ op = "exec_command" /\ inp.env.launch
    \/ op \in Transfers /\ ReachedPopen /\ inp.env.launch /\ inp.env.rc = 0

CarriesExitCode(err, rc) ==
    \E i \in DOMAIN err.args : err.args[i].t = "int" /\ err.args[i].v = rc

MissingFileSpawnsNothing ==
    (op = "put_file" /\ ~inp.exists) =>
        /\ out.err.exc = "AnsibleFileNotFound"
        /\ ~Has(out.events, "open_r")
        /\ ~Has(out.events, "Popen")
        /\ ~Has(out.events, "child")

MissingFileWitness ==
    /\ op = "put_file"
    /\ ~inp.exists
    /\ inp.out_path = <<"x", ";", "y">>
    /\ out.events = <<"exists">>

\* why the last put or fetch failed, in the world
Cause ==
    IF ~inp.env.launch THEN "launch"
    ELSE IF ~inp.env.dd THEN "dd_missing"
    ELSE IF inp.env.rc # 0 THEN "transfer"
    ELSE "none"

\* what the error of the last put or fetch says the cause is: a launch error
\* is one that names the command that could not start
Reported ==
    IF out.err.exc = "none" THEN "none"
    ELSE IF out.err.text = dd_required.text THEN "dd_missing"
    ELSE IF out.err.text \in {"failed to transfer file", "failed to fetch file"}
         THEN "transfer"
    ELSE IF \E i \in DOMAIN out.err.args :
                out.err.args[i].t = "remote" /\ out.err.args[i].v = out.argv[1]
         THEN "launch"
    ELSE "other"

\* C6: put and fetch report a control binary that cannot start, a dd that is
\* missing in the instance and a non-zero exit with three different errors,
\* each cause with its own.
ThreeCausesThreeErrors ==
    (op \in Transfers /\ ReachedPopen) => Reported = Cause

\* the longest run of separators a string starts with
RECURSIVE LeadingSeps(_)
LeadingSeps(s) == IF startswith(s, SEP) THEN 1 + LeadingSeps(Tail(s)) ELSE 0

\* positions i..j of s are one whole segment
IsSegment(s, i, j) ==
    /\ i <= j
    /\ \A k \in i..j : s[k] # SEP
    /\ i = 1 \/ s[i - 1] = SEP
    /\ j = Len(s) \/ s[j + 1] = SEP

\* s is absolute and has no '.' or '..' segment, no two separators in a row
\* and no trailing separator unless it is the root
Canonical(s) ==
    /\ startswith(s, SEP)
    /\ \A i \in 1..(Len(s) - 1) : ~(s[i] = SEP /\ s[i + 1] = SEP)
    /\ Len(s) > 1 => s[Len(s)] # SEP
    /\ \A i, j \in 1..Len(s) : IsSegment(s, i, j) => SubSeq(s, i, j) \notin {DOT, DOTDOT}

\* C7: for a relative path the result of _prefix_login_path is absolute, and
\* normalising it once more changes nothing.
RelativeIsAnchoredAndFixed ==
    (op \in {"_prefix_login_path", "again"} /\ ~startswith(inp.path, SEP)) =>
        /\ startswith(out.path, SEP)
        /\ op = "again" => out.twice = out.path

RelativeWitness ==
    /\ op = "again"
    /\ inp.path = <<".", ".", "/", "a">>
    /\ out.path = <<"/", "a">>
    /\ out.twice = <<"/", "a">>

\* C8 as stated: for every input the result is absolute and has no redundant
\* segment and no duplicate separator, at its start included.
OutputIsCanonical ==
    op \in {"_prefix_login_path", "again"} => Canonical(out.path)

\* C8 amended: for every input the result is absolute and has no '.' or '..'
\* segment, no trailing separator other than the root's and no duplicate
\* separator, except that it starts with exactly two separators when (and
\* only when) the input starts with exactly two.
OutputIsCanonicalUpToDoubleRoot ==
    op \in {"_prefix_login_path", "again"} =>
        /\ LeadingSeps(out.path) = (IF LeadingSeps(inp.path) = 2 THEN 2 ELSE 1)
        /\ Canonical(IF LeadingSeps(out.path) = 2 THEN Tail(out.path) ELSE out.path)

DoubleRootWitness ==
    /\ op = "_prefix_login_path"
    /\ inp.path = <<"/", "/", "a", "/">>
    /\ out.path = <<"/", "/", "a">>

\* C9: a fetch that fails after opening the local file, by a non-zero exit or
\* by a child that cannot start, opened the file before it started the child
\* and leaves it in place, whatever was written to it, removing nothing.
FailedFetchLeavesFile ==
    (op = "fetch_file" /\ out.err.exc = "AnsibleError") =>
        /\ localFile \in {"empty", "partial", "full"}
        /\ out.events[1] = "open_w"
        /\ Index(out.events, "open_w") < Index(out.events, "Popen")
        /\ ~Has(out.events, "unlink")

FailedFetchWitness ==
    /\ op = "fetch_file"
    /\ out.err.exc = "AnsibleError"
    /\ inp.env.launch
    /\ inp.env.rc = 1
    /\ localFile = "partial"

\* the words the in-instance shell makes of the last argument of argv
ShellWords(argv) == sh_parse(argv[Len(argv)])

\* C10: in put and in fetch alike, the shell reads the command text as the
\* one command dd with two operands, of=<path> (put) or if=<path> (fetch)
\* and bs=<BUFSIZE>, the path being the normalised remote path whatever
\* characters it holds.
RemotePathIsOneWord ==
    (op \in Transfers /\ ReachedPopen) =>
        LET sh == ShellWords(out.argv)
            operand == IF op = "put_file"
                       THEN <<"o", "f", "=">> \o _prefix_login_path(inp.out_path)
                       ELSE <<"i", "f", "=">> \o _prefix_login_path(inp.in_path)
        IN  /\ sh.ok
            /\ sh.cmds = << <<<<"d", "d">>, operand, <<"b", "s", "=">> \o str_int(BUFSIZE)>> >>

\* the put half of C10 alone
PutPathIsOneWord == op = "put_file" => RemotePathIsOneWord

====
